---- MODULE Spec2Model ----
(***************************************************************************)
(* Vendor relationship graph engine: the relational breadth-first path     *)
(* enumeration and shortest-path search of VendorGraphService, the Cypher  *)
(* queries of Neo4jGraphService, and the backend selection of              *)
(* HybridGraphService.                                                     *)
(*                                                                         *)
(* Strengths are floats in [0,1] in the program.  Here a strength is an    *)
(* integer number of tenths, and the cumulative strength of a path of n    *)
(* edges is the integer product of its n strengths, i.e. a number of       *)
(* 10^-n units (1.0 at n = 0 is 1).  Two cumulative strengths are only     *)
(* ever compared by the program when the path lengths are equal.           *)
(***************************************************************************)
EXTENDS Integers, Sequences, FiniteSets, TLC

VARIABLES
    vendors,        \* Vendor table: set of vendor_id
    edges,          \* VendorRelationship table: set of rows
    coexisted,      \* history of the table: the sets of rows that have been
                    \* in it together at some time
    neo4j_service,  \* HybridGraphService.neo4j_service is not None
    endpoint,       \* API endpoint that made the call in flight, if any
    pc,             \* position of the call in flight
    op,             \* operation of the call in flight
    args,           \* its arguments
    queue,          \* BFS deque
    paths,          \* find_paths: emitted RelationshipPath list
    visited_paths,  \* find_paths: emitted path signatures
    visited,        \* find_shortest_path: global visited set
    cursor,         \* Neo4j result cursor: rows not yet fetched
    native_paths,   \* Neo4jGraphService.find_paths local list `paths`; after
                    \* an exception, the rows fetched before it (unreachable
                    \* garbage in the program)
    invoked,        \* backends invoked by the call in flight, in order
    mysql_return,   \* value returned by the VendorGraphService method
    result          \* value returned by the HybridGraphService method

vars == <<vendors, edges, coexisted, neo4j_service, endpoint, pc, op, args, queue, paths,
          visited_paths, visited, cursor, native_paths, invoked,
          mysql_return, result>>

(***************************************************************************)
(* Bounds and input sets                                                   *)
(***************************************************************************)
MaxEdges == 3
MaxDepth == 3
MaxLimit == 2
DefaultLimit == 100

VendorIds == {"A", "B", "C", "D"}
MissingVendor == "Z"
QuerySources == {"A", "B", MissingVendor}
QueryTargets == {"A", "C", "D"}
NoVendor == "-"
None == -1
Pending == [kind |-> "pending"]
PyNone == [kind |-> "None"]

Rel(s, t, ty, st) ==
    [source_vendor_id |-> s, target_vendor_id |-> t,
     relationship_type |-> ty, strength |-> st]

\* Relationship inputs offered to create_relationship.  At most one strength
\* per (source, target, type), so that the MERGE of sync_relationship keeps
\* the native store equal to the relational table.
RelInputs ==
    { Rel("A", "B", "supplier", 9), Rel("A", "B", "partner", 5),
      Rel("B", "A", "supplier", 9), Rel("A", "C", "partner", 9),
      Rel("B", "C", "supplier", 5), Rel("C", "B", "partner", 9),
      Rel("B", "B", "supplier", 9), Rel("C", "D", "supplier", 9),
      Rel("C", "A", "supplier", 5), Rel("A", "Z", "supplier", 9) }

TypeFilters == { {}, {"supplier"} }
MinStrengths == {0, 6}
Limits == {1, MaxLimit, DefaultLimit}

\* relationship_types is Optional[List[str]]: types_given is FALSE for None
\* and TRUE for a list, which may be empty.  One filter at a time, or none.
FindPathsArgs ==
    { a \in [source : QuerySources, target : {NoVendor},
              min_depth : 1..MaxDepth, max_depth : 1..MaxDepth,
              relationship_types : TypeFilters, types_given : BOOLEAN,
              min_strength : MinStrengths, limit : Limits] :
        /\ (a.relationship_types # {} => a.types_given)
        /\ ~a.types_given \/ a.min_strength = 0 }

\* arguments of the calls made while the native backend may be available
HybridFindPathsArgs ==
    { a \in FindPathsArgs :
        /\ a.source \in {"A", MissingVendor}
        /\ a.min_depth = 1
        /\ a.min_strength = 0
        /\ (a.relationship_types = {} => ~a.types_given)
        /\ a.limit \in {1, DefaultLimit} }

ShortestPathArgs ==
    [source : {"A", "B"}, target : QueryTargets, min_depth : {1},
     max_depth : 1..MaxDepth, relationship_types : {{}},
     types_given : {FALSE}, min_strength : {0}, limit : {1}]

StatsArgs ==
    [source : {"A", "B", MissingVendor}, target : {NoVendor}, min_depth : {1},
     max_depth : {1}, relationship_types : {{}}, types_given : {FALSE},
     min_strength : {0}, limit : {1}]

NoArgs ==
    [source |-> NoVendor, target |-> NoVendor, min_depth |-> 0,
     max_depth |-> 0, relationship_types |-> {}, types_given |-> FALSE,
     min_strength |-> 0, limit |-> 0]

(***************************************************************************)
(* Helpers                                                                 *)
(***************************************************************************)
Range(s) == { s[i] : i \in 1..Len(s) }

Orderings(S) ==
    { f \in [1..Cardinality(S) -> S] :
        \A i, j \in 1..Cardinality(S) : i # j => f[i] # f[j] }

RECURSIVE Pow10(_)
Pow10(n) == IF n = 0 THEN 1 ELSE 10 * Pow10(n - 1)

RECURSIVE Product(_)
Product(rels) ==
    IF rels = <<>> THEN 1 ELSE rels[1].strength * Product(Tail(rels))

NodeIds(path_nodes) == [i \in 1..Len(path_nodes) |-> path_nodes[i].vendor_id]

(***************************************************************************)
(* VendorGraphService                                                      *)
(***************************************************************************)
_get_vendor(vendor_id) == vendor_id \in vendors

\* a query that forgets the strength condition of line 302
_get_outgoing_relationshipsAnyStrength(vendor_id, relationship_types, min_strength) ==
    { r \in edges :
        /\ r.source_vendor_id = vendor_id
        /\ (relationship_types # {} => r.relationship_type \in relationship_types) }

\* a query that ends with .first() instead of .all()
_get_outgoing_relationshipsFirstRow(vendor_id, relationship_types, min_strength) ==
    LET rows == { r \in edges :
                    /\ r.source_vendor_id = vendor_id
                    /\ r.strength >= min_strength
                    /\ (relationship_types # {} =>
                           r.relationship_type \in relationship_types) }
    IN  IF rows = {} THEN {} ELSE { CHOOSE r \in rows : TRUE }

\* lines 284-309; `if relationship_types:` is false for None and for []
_get_outgoing_relationships(vendor_id, relationship_types, min_strength) ==
    { r \in edges :
        /\ r.source_vendor_id = vendor_id
        /\ r.strength >= min_strength
        /\ (relationship_types # {} => r.relationship_type \in relationship_types) }

\* a queue that starts with the source as the first node of the path
InitialQueueWithSourceNode(source_vendor_id) ==
    << [current_id |-> source_vendor_id,
        path_nodes |-> <<[vendor_id |-> source_vendor_id, depth |-> 0]>>,
        path_relationships |-> <<>>, cumulative_strength |-> 1] >>

\* lines 59 and 167: the queue starts with the source and an empty path
InitialQueue(source_vendor_id) ==
    << [current_id |-> source_vendor_id, path_nodes |-> <<>>,
        path_relationships |-> <<>>, cumulative_strength |-> 1] >>

\* a cycle check that forgets the source vendor
RevisitsVendorPathOnly(target_id, path_nodes, source_vendor_id) ==
    target_id \in Range(NodeIds(path_nodes))

\* line 87: the cycle check of find_paths
RevisitsVendor(target_id, path_nodes, source_vendor_id) ==
    target_id \in Range(NodeIds(path_nodes)) \/ target_id = source_vendor_id

\* a window test that forgets min_depth
InDepthRangeNoMinimum(new_depth, min_depth, max_depth) ==
    new_depth <= max_depth

\* a window test that stops one short of max_depth
InDepthRangeBelowMaximum(new_depth, min_depth, max_depth) ==
    min_depth <= new_depth /\ new_depth < max_depth

\* line 121
InDepthRange(new_depth, min_depth, max_depth) ==
    min_depth <= new_depth /\ new_depth <= max_depth

\* a strength that forgets the edges before the last one
NewStrengthLastEdgeOnly(cumulative_strength, rel) == rel.strength

\* line 114
NewStrength(cumulative_strength, rel) == cumulative_strength * rel.strength

\* line 125: 1.0 - new_strength, in 10^-new_depth units
RiskScore(new_strength, new_depth) == Pow10(new_depth) - new_strength

\* "->".join(ids), for a non-empty list of vendor ids
RECURSIVE JoinIds(_)
JoinIds(ids) ==
    IF Len(ids) = 1 THEN ids[1] ELSE ids[1] \o "->" \o JoinIds(Tail(ids))

\* line 118: f"{source_vendor_id}->" + "->".join(n.vendor_id for n in new_nodes)
PathSignature(source_vendor_id, new_nodes) ==
    source_vendor_id \o "->" \o JoinIds(NodeIds(new_nodes))

\* the body of the for loop without the test of line 122: every in-window
\* path is emitted
ProcessRelWithoutSignatureTest(st, cur, rel, a) ==
    LET target_id == rel.target_vendor_id
        current_depth == Len(cur.path_nodes)
    IN  IF RevisitsVendor(target_id, cur.path_nodes, a.source) THEN st
        ELSE IF ~_get_vendor(target_id) THEN st
        ELSE
          LET new_nodes == Append(cur.path_nodes,
                  [vendor_id |-> target_id, depth |-> current_depth + 1])
              new_relationships == Append(cur.path_relationships, rel)
              new_strength == NewStrength(cur.cumulative_strength, rel)
              new_depth == Len(new_nodes)
              path_signature == PathSignature(a.source, new_nodes)
              emit == InDepthRange(new_depth, a.min_depth, a.max_depth)
              st1 == IF emit
                     THEN [st EXCEPT
                             !.visited_paths = @ \cup {path_signature},
                             !.paths = Append(@,
                                 [source_vendor_id |-> a.source,
                                  target_vendor_id |-> target_id,
                                  path |-> new_nodes,
                                  relationships |-> new_relationships,
                                  total_strength |-> new_strength,
                                  path_length |-> new_depth,
                                  risk_score |-> RiskScore(new_strength, new_depth)])]
                     ELSE st
          IN  IF new_depth < a.max_depth
              THEN [st1 EXCEPT !.queue = Append(@,
                       [current_id |-> target_id, path_nodes |-> new_nodes,
                        path_relationships |-> new_relationships,
                        cumulative_strength |-> new_strength])]
              ELSE st1

\* lines 83-138: the body of the for loop, for one relationship
ProcessRel(st, cur, rel, a) ==
    LET target_id == rel.target_vendor_id
        current_depth == Len(cur.path_nodes)
    IN  IF RevisitsVendor(target_id, cur.path_nodes, a.source) THEN st
        ELSE IF ~_get_vendor(target_id) THEN st
        ELSE
          LET new_nodes == Append(cur.path_nodes,
                  [vendor_id |-> target_id, depth |-> current_depth + 1])
              new_relationships == Append(cur.path_relationships, rel)
              new_strength == NewStrength(cur.cumulative_strength, rel)
              new_depth == Len(new_nodes)
              path_signature == PathSignature(a.source, new_nodes)
              emit == /\ InDepthRange(new_depth, a.min_depth, a.max_depth)
                      /\ path_signature \notin st.visited_paths
              st1 == IF emit
                     THEN [st EXCEPT
                             !.visited_paths = @ \cup {path_signature},
                             !.paths = Append(@,
                                 [source_vendor_id |-> a.source,
                                  target_vendor_id |-> target_id,
                                  path |-> new_nodes,
                                  relationships |-> new_relationships,
                                  total_strength |-> new_strength,
                                  path_length |-> new_depth,
                                  risk_score |-> RiskScore(new_strength, new_depth)])]
                     ELSE st
          IN  IF new_depth < a.max_depth
              THEN [st1 EXCEPT !.queue = Append(@,
                       [current_id |-> target_id, path_nodes |-> new_nodes,
                        path_relationships |-> new_relationships,
                        cumulative_strength |-> new_strength])]
              ELSE st1

RECURSIVE ProcessRels(_, _, _, _, _)
ProcessRels(st, cur, order, i, a) ==
    IF i > Len(order) THEN st
    ELSE ProcessRels(ProcessRel(st, cur, order[i], a), cur, order, i + 1, a)

\* a key without the minus sign: (path_length, total_strength)
SortKeyLEWeakestFirst(p, q) ==
    \/ p.path_length < q.path_length
    \/ p.path_length = q.path_length /\ p.total_strength <= q.total_strength

\* line 141: key (path_length, -total_strength)
SortKeyLE(p, q) ==
    \/ p.path_length < q.path_length
    \/ p.path_length = q.path_length /\ p.total_strength >= q.total_strength

\* list.sort is stable: an element goes after every element whose key is
\* not greater than its own
RECURSIVE InsertSorted(_, _)
InsertSorted(p, sorted) ==
    IF sorted = <<>> THEN <<p>>
    ELSE IF SortKeyLE(sorted[1], p)
         THEN <<sorted[1]>> \o InsertSorted(p, Tail(sorted))
         ELSE <<p>> \o sorted

RECURSIVE SortPaths(_)
SortPaths(ps) ==
    IF ps = <<>> THEN <<>>
    ELSE InsertSorted(ps[Len(ps)], SortPaths(SubSeq(ps, 1, Len(ps) - 1)))

\* a return without the slice
TruncateNothing(ps, limit) == ps

\* line 143: paths[:limit]
Truncate(ps, limit) ==
    IF Len(ps) <= limit THEN ps ELSE SubSeq(ps, 1, limit)

\* off-by-one depth tests
SpDepthReachedLate(path_nodes, max_depth) == Len(path_nodes) > max_depth

SpDepthReachedEarly(path_nodes, max_depth) == Len(path_nodes) >= max_depth - 1

\* line 173: `if len(path_nodes) >= max_depth: continue` of find_shortest_path
SpDepthReached(path_nodes, max_depth) == Len(path_nodes) >= max_depth

\* lines 179-225: the body of the for loop of find_shortest_path, for one
\* relationship; st.found holds the RelationshipPath returned at line 215
SpProcessRel(st, cur, rel, a) ==
    LET next_id == rel.target_vendor_id
    IN  IF next_id \in st.visited THEN st
        ELSE
          LET st1 == [st EXCEPT !.visited = @ \cup {next_id}]
          IN  IF ~_get_vendor(next_id) THEN st1
              ELSE
                LET new_nodes == Append(cur.path_nodes,
                        [vendor_id |-> next_id, depth |-> Len(cur.path_nodes) + 1])
                    new_relationships == Append(cur.path_relationships, rel)
                    new_strength == NewStrength(cur.cumulative_strength, rel)
                IN  IF next_id = a.target
                    THEN [st1 EXCEPT !.found =
                            [kind |-> "path",
                             source_vendor_id |-> a.source,
                             target_vendor_id |-> a.target,
                             path |-> new_nodes,
                             relationships |-> new_relationships,
                             total_strength |-> new_strength,
                             path_length |-> Len(new_nodes),
                             risk_score |-> None]]
                    ELSE [st1 EXCEPT !.queue = Append(@,
                            [current_id |-> next_id, path_nodes |-> new_nodes,
                             path_relationships |-> new_relationships,
                             cumulative_strength |-> new_strength])]

RECURSIVE SpProcessRels(_, _, _, _, _)
SpProcessRels(st, cur, order, i, a) ==
    IF i > Len(order) \/ st.found # PyNone THEN st
    ELSE SpProcessRels(SpProcessRel(st, cur, order[i], a), cur, order, i + 1, a)

RECURSIVE SumStrength(_)
SumStrength(S) ==
    IF S = {} THEN 0
    ELSE LET r == CHOOSE x \in S : TRUE IN r.strength + SumStrength(S \ {r})

ByType(S) ==
    [t \in { r.relationship_type : r \in S } |->
        Cardinality({ r \in S : r.relationship_type = t })]

\* an average without the `if outgoing else 0.0`
AverageWithoutDefault(S) == <<SumStrength(S), Cardinality(S)>>

\* sum(...) / len(...) as the fraction <<sum, len>>; 0.0 is <<0, 1>>
Average(S) == IF S # {} THEN <<SumStrength(S), Cardinality(S)>> ELSE <<0, 1>>

\* lines 229-269
get_vendor_network_stats(vendor_id) ==
    LET outgoing == { r \in edges : r.source_vendor_id = vendor_id }
        incoming == { r \in edges : r.target_vendor_id = vendor_id }
    IN  [kind |-> "stats",
         vendor_id |-> vendor_id,
         total_outgoing |-> Cardinality(outgoing),
         total_incoming |-> Cardinality(incoming),
         total_connections |-> Cardinality(outgoing) + Cardinality(incoming),
         outgoing_by_type |-> ByType(outgoing),
         incoming_by_type |-> ByType(incoming),
         average_outgoing_strength |-> Average(outgoing),
         average_incoming_strength |-> Average(incoming)]

(***************************************************************************)
(* Neo4jGraphService.  The native store holds the same vendors and         *)
(* relationships as the relational tables (sync_to_neo4j).                 *)
(***************************************************************************)
\* (source)-[:RELATIONSHIP*n]->(): Cypher matches a variable-length pattern
\* with relationship uniqueness; a node may occur several times
RECURSIVE Trails(_, _)
Trails(source_id, n) ==
    IF n = 0 THEN { <<>> }
    ELSE UNION { { Append(t, e) :
                     e \in { r \in edges :
                              /\ r \notin Range(t)
                              /\ r.source_vendor_id =
                                   (IF t = <<>> THEN source_id
                                    ELSE t[Len(t)].target_vendor_id) } } :
                 t \in Trails(source_id, n - 1) }

\* [node in nodes(path) | {vendor_id: ...}]: the source node comes first
TrailNodes(source_id, t) ==
    << [vendor_id |-> source_id] >> \o
    [i \in 1..Len(t) |-> [vendor_id |-> t[i].target_vendor_id]]

\* the relationship dictionaries of both backends
RelDict(r) ==
    [source |-> r.source_vendor_id, target |-> r.target_vendor_id,
     type |-> r.relationship_type, strength |-> r.strength]

\* lines 177-206: the rows matched by the find_paths query, before ORDER BY
\* and LIMIT
MatchPaths(a) ==
    IF a.source \notin vendors THEN {}
    ELSE
      { [source_vendor_id |-> a.source,
         target_vendor_id |-> t[Len(t)].target_vendor_id,
         path_length |-> Len(t),
         total_strength |-> Product(t),
         nodes |-> TrailNodes(a.source, t),
         relationships |-> [i \in 1..Len(t) |-> RelDict(t[i])]] :
        t \in { u \in UNION { Trails(a.source, n) : n \in a.min_depth..a.max_depth } :
                  \A i \in 1..Len(u) : u[i].strength >= a.min_strength } }

\* lines 172-178: the type list is spliced after the relationship type
\* (`[r:RELATIONSHIP:supplier*1..3]`), which Cypher rejects
QueryIsMalformed(a) == a.relationship_types # {}

\* lines 248-260: shortestPath((source)-[:RELATIONSHIP*..d]->(target))
ShortestMatches(a) ==
    IF a.source \notin vendors \/ a.target \notin vendors THEN {}
    ELSE
      LET all == UNION { Trails(a.source, n) : n \in 1..a.max_depth }
          hits == { t \in all : t[Len(t)].target_vendor_id = a.target }
      IN  { t \in hits : \A u \in hits : Len(t) <= Len(u) }

\* lines 288-316
get_vendor_stats(vendor_id) ==
    LET out == { r \in edges : r.source_vendor_id = vendor_id }
        inc == { r \in edges : r.target_vendor_id = vendor_id }
    IN  IF vendor_id \notin vendors THEN [kind |-> "stats"]
        ELSE [kind |-> "stats",
              vendor_id |-> vendor_id,
              outgoing_count |-> Cardinality(out),
              incoming_count |-> Cardinality(inc),
              total_connections |-> Cardinality(out) + Cardinality(inc),
              avg_outgoing_strength |-> Average(out),
              avg_incoming_strength |-> Average(inc),
              outgoing_types |-> { r.relationship_type : r \in out },
              incoming_types |-> { r.relationship_type : r \in inc }]

(***************************************************************************)
(* HybridGraphService                                                      *)
(***************************************************************************)
\* lines 168-206
_convert_mysql_path_to_dict(path) ==
    [source_vendor_id |-> path.source_vendor_id,
     target_vendor_id |-> path.target_vendor_id,
     path_length |-> path.path_length,
     total_strength |-> path.total_strength,
     nodes |-> path.path,
     relationships |->
        [i \in 1..Len(path.relationships) |-> RelDict(path.relationships[i])]]

\* lines 86-90
NativeResponse(ps) == [kind |-> "paths", backend |-> "neo4j", paths |-> ps]

\* a fallback response that keeps the rows the native call had fetched
MysqlResponseKeepingNativeRows(ps) ==
    [kind |-> "paths", backend |-> "mysql",
     paths |-> native_paths \o
               [i \in 1..Len(ps) |-> _convert_mysql_path_to_dict(ps[i])]]

\* lines 104-108
MysqlResponse(ps) ==
    [kind |-> "paths", backend |-> "mysql",
     paths |-> [i \in 1..Len(ps) |-> _convert_mysql_path_to_dict(ps[i])]]

\* lines 75, 127, 155: `if self.neo4j_service:`
UseNative(service) == service

\* entry of the VendorGraphService method: lines 52-61, 162-167
MysqlBegin(o, a, inv) ==
    /\ pc' = "mysql"
    /\ invoked' = inv
    /\ paths' = <<>>
    /\ visited_paths' = {}
    /\ queue' = IF o = "find_paths" \/ (o = "find_shortest_path" /\ a.source # a.target)
                THEN InitialQueue(a.source) ELSE <<>>
    /\ visited' = IF o = "find_shortest_path" /\ a.source # a.target
                  THEN {a.source} ELSE {}

ArgsOf(o) ==
    IF o = "find_paths" THEN FindPathsArgs
    ELSE IF o = "find_shortest_path" THEN ShortestPathArgs
    ELSE StatsArgs

HybridArgsOf(o) == IF o = "find_paths" THEN HybridFindPathsArgs ELSE ArgsOf(o)

Operations == {"find_paths", "find_shortest_path", "get_vendor_stats"}

(***************************************************************************)
(* Actions                                                                 *)
(***************************************************************************)
Init ==
    /\ vendors = VendorIds
    /\ edges = {}
    /\ coexisted = {{}}
    /\ neo4j_service = FALSE
    /\ endpoint = "none"
    /\ pc = "idle"
    /\ op = "none"
    /\ args = NoArgs
    /\ queue = <<>>
    /\ paths = <<>>
    /\ visited_paths = {}
    /\ visited = {}
    /\ cursor = {}
    /\ native_paths = <<>>
    /\ invoked = <<>>
    /\ mysql_return = Pending
    /\ result = Pending

\* app/api/vendors.py create_relationship: both vendors must exist
create_relationship(rel_input) ==
    /\ pc = "idle"
    /\ Cardinality(edges) < MaxEdges
    /\ rel_input \notin edges
    /\ rel_input.source_vendor_id \in vendors
    /\ rel_input.target_vendor_id \in vendors
    /\ edges' = edges \cup {rel_input}
    /\ coexisted' = coexisted \cup SUBSET edges'
    /\ UNCHANGED <<vendors, neo4j_service, endpoint, pc, op, args, queue, paths,
                   visited_paths, visited, cursor, native_paths, invoked,
                   mysql_return, result>>

\* HybridGraphService(session).<o>(a): the constructor fixes neo4j_service,
\* the method tries the native backend first
Call(o, a, available) ==
    /\ pc = "idle"
    /\ op' = o
    /\ args' = a
    /\ neo4j_service' = available
    /\ IF UseNative(available)
       THEN /\ pc' = "neo4j"
            /\ invoked' = <<"neo4j">>
            /\ UNCHANGED <<queue, paths, visited_paths, visited>>
       ELSE MysqlBegin(o, a, <<"mysql">>)
    /\ UNCHANGED <<vendors, edges, coexisted, endpoint, cursor, native_paths,
                   mysql_return, result>>

\* session.run of Neo4jGraphService.find_paths
NativeFindPathsRun ==
    /\ pc = "neo4j"
    /\ op = "find_paths"
    /\ ~QueryIsMalformed(args)
    /\ cursor' = MatchPaths(args)
    /\ pc' = "neo4j_rows"
    /\ UNCHANGED <<vendors, edges, coexisted, neo4j_service, endpoint, op, args, queue, paths,
                   visited_paths, visited, native_paths, invoked,
                   mysql_return, result>>

\* ORDER BY path_length, total_strength DESC
RowKeyLE(p, q) ==
    \/ p.path_length < q.path_length
    \/ p.path_length = q.path_length /\ p.total_strength >= q.total_strength

\* `for record in result: paths.append(...)`, one record; LIMIT $limit
NativeFetch ==
    /\ pc = "neo4j_rows"
    /\ Len(native_paths) < args.limit
    /\ \E row \in cursor :
        /\ \A other \in cursor : RowKeyLE(row, other)
        /\ native_paths' = Append(native_paths, row)
        /\ cursor' = cursor \ {row}
    /\ UNCHANGED <<vendors, edges, coexisted, neo4j_service, endpoint, pc, op, args, queue, paths,
                   visited_paths, visited, invoked, mysql_return, result>>

\* a wrapper that treats an empty native result as a failure
NativeFindPathsReturnUnlessEmpty ==
    /\ pc = "neo4j_rows"
    /\ cursor = {} \/ Len(native_paths) >= args.limit
    /\ IF native_paths = <<>>
       THEN /\ MysqlBegin(op, args, invoked \o <<"mysql">>)
            /\ UNCHANGED result
       ELSE /\ result' = NativeResponse(native_paths)
            /\ pc' = "done"
            /\ UNCHANGED <<queue, paths, visited_paths, visited, invoked>>
    /\ UNCHANGED <<vendors, edges, coexisted, neo4j_service, endpoint, op, args, cursor,
                   native_paths, mysql_return>>

NativeFindPathsReturn ==
    /\ pc = "neo4j_rows"
    /\ cursor = {} \/ Len(native_paths) >= args.limit
    /\ result' = NativeResponse(native_paths)
    /\ pc' = "done"
    /\ UNCHANGED <<vendors, edges, coexisted, neo4j_service, endpoint, op, args, queue, paths,
                   visited_paths, visited, cursor, native_paths, invoked,
                   mysql_return>>

\* Neo4jGraphService.find_shortest_path; shortestPath raises when the start
\* and end nodes are the same
NativeShortestPath ==
    /\ pc = "neo4j"
    /\ op = "find_shortest_path"
    /\ args.source # args.target
    /\ IF ShortestMatches(args) = {}
       THEN result' = PyNone
       ELSE \E t \in ShortestMatches(args) :
              result' = [kind |-> "dict",
                         path_length |-> Len(t),
                         total_strength |-> Product(t),
                         nodes |-> TrailNodes(args.source, t)]
    /\ pc' = "done"
    /\ UNCHANGED <<vendors, edges, coexisted, neo4j_service, endpoint, op, args, queue, paths,
                   visited_paths, visited, cursor, native_paths, invoked,
                   mysql_return>>

NativeStats ==
    /\ pc = "neo4j"
    /\ op = "get_vendor_stats"
    /\ result' = [kind |-> "stats", backend |-> "neo4j",
                  stats |-> get_vendor_stats(args.source)]
    /\ pc' = "done"
    /\ UNCHANGED <<vendors, edges, coexisted, neo4j_service, endpoint, op, args, queue, paths,
                   visited_paths, visited, cursor, native_paths, invoked,
                   mysql_return>>

\* any exception of the native call (connectivity, query error), caught at
\* lines 91, 134, 160; the method falls through to the MySQL service
NativeRaise ==
    /\ pc \in {"neo4j", "neo4j_rows"}
    /\ cursor' = {}
    /\ MysqlBegin(op, args, invoked \o <<"neo4j raised", "mysql">>)
    /\ UNCHANGED <<vendors, edges, coexisted, neo4j_service, endpoint, op, args, native_paths,
                   mysql_return, result>>

\* a bare `return` for the unknown source vendor
FindPathsNoSourceReturnsNone ==
    /\ pc = "mysql"
    /\ op = "find_paths"
    /\ ~_get_vendor(args.source)
    /\ mysql_return' = PyNone
    /\ result' = PyNone
    /\ pc' = "done"
    /\ UNCHANGED <<vendors, edges, coexisted, neo4j_service, endpoint, op, args, queue, paths,
                   visited_paths, visited, cursor, native_paths, invoked>>

\* VendorGraphService.find_paths lines 64-66: unknown source vendor
FindPathsNoSource ==
    /\ pc = "mysql"
    /\ op = "find_paths"
    /\ ~_get_vendor(args.source)
    /\ mysql_return' = [kind |-> "list", paths |-> <<>>]
    /\ result' = MysqlResponse(<<>>)
    /\ pc' = "done"
    /\ UNCHANGED <<vendors, edges, coexisted, neo4j_service, endpoint, op, args, queue, paths,
                   visited_paths, visited, cursor, native_paths, invoked>>

\* a loop that runs until the queue is empty
LoopContinuesIgnoringLimit(q, ps, limit) == q # <<>>

\* a loop that stops one path short of limit
LoopContinuesBelowLimit(q, ps, limit) == q # <<>> /\ Len(ps) + 1 < limit

\* line 68
LoopContinues(q, ps, limit) == q # <<>> /\ Len(ps) < limit

\* an iteration that reads the head of the queue and removes it only when
\* its expansion has emitted a path
FindPathsExpandKeepingHead ==
    /\ pc = "mysql"
    /\ op = "find_paths"
    /\ _get_vendor(args.source)
    /\ LoopContinues(queue, paths, args.limit)
    /\ LET cur == Head(queue)
           st0 == [queue |-> Tail(queue), paths |-> paths,
                   visited_paths |-> visited_paths]
       IN  IF Len(cur.path_nodes) >= args.max_depth
           THEN /\ queue' = Tail(queue)
                /\ UNCHANGED <<paths, visited_paths>>
           ELSE \E order \in Orderings(_get_outgoing_relationships(
                        cur.current_id, args.relationship_types, args.min_strength)) :
                  LET st == ProcessRels(st0, cur, order, 1, args)
                  IN  IF st.paths = paths
                      THEN UNCHANGED <<queue, paths, visited_paths>>
                      ELSE /\ queue' = st.queue
                           /\ paths' = st.paths
                           /\ visited_paths' = st.visited_paths
    /\ UNCHANGED <<vendors, edges, coexisted, neo4j_service, endpoint, pc, op, args, visited,
                   cursor, native_paths, invoked, mysql_return, result>>

\* one iteration of the while loop, lines 68-138; the rows of the query at
\* line 77 come in an order the database chooses
FindPathsExpand ==
    /\ pc = "mysql"
    /\ op = "find_paths"
    /\ _get_vendor(args.source)
    /\ LoopContinues(queue, paths, args.limit)
    /\ LET cur == Head(queue)
           st0 == [queue |-> Tail(queue), paths |-> paths,
                   visited_paths |-> visited_paths]
       IN  IF Len(cur.path_nodes) >= args.max_depth
           THEN /\ queue' = Tail(queue)
                /\ UNCHANGED <<paths, visited_paths>>
           ELSE \E order \in Orderings(_get_outgoing_relationships(
                        cur.current_id, args.relationship_types, args.min_strength)) :
                  LET st == ProcessRels(st0, cur, order, 1, args)
                  IN  /\ queue' = st.queue
                      /\ paths' = st.paths
                      /\ visited_paths' = st.visited_paths
    /\ UNCHANGED <<vendors, edges, coexisted, neo4j_service, endpoint, pc, op, args, visited,
                   cursor, native_paths, invoked, mysql_return, result>>

\* lines 140-143, and the response of HybridGraphService.find_paths when the
\* call came through it (an endpoint of risk_management.py calls the service
\* directly)
FindPathsReturn ==
    /\ pc = "mysql"
    /\ op = "find_paths"
    /\ _get_vendor(args.source)
    /\ ~LoopContinues(queue, paths, args.limit)
    /\ paths' = SortPaths(paths)
    /\ mysql_return' = [kind |-> "list", paths |-> Truncate(paths', args.limit)]
    /\ result' = IF endpoint = "none"
                  THEN MysqlResponse(mysql_return'.paths) ELSE result
    /\ pc' = "done"
    /\ UNCHANGED <<vendors, edges, coexisted, neo4j_service, endpoint, op, args, queue,
                   visited_paths, visited, cursor, native_paths, invoked>>

\* VendorGraphService.find_shortest_path lines 162-163
ShortestPathSameVendor ==
    /\ pc = "mysql"
    /\ op = "find_shortest_path"
    /\ args.source = args.target
    /\ mysql_return' = PyNone
    /\ result' = PyNone
    /\ pc' = "done"
    /\ UNCHANGED <<vendors, edges, coexisted, neo4j_service, endpoint, op, args, queue, paths,
                   visited_paths, visited, cursor, native_paths, invoked>>

\* one iteration of the while loop, lines 169-225
ShortestPathExpand ==
    /\ pc = "mysql"
    /\ op = "find_shortest_path"
    /\ args.source # args.target
    /\ queue # <<>>
    /\ LET cur == Head(queue)
           st0 == [queue |-> Tail(queue), visited |-> visited, found |-> PyNone]
       IN  IF SpDepthReached(cur.path_nodes, args.max_depth)
           THEN /\ queue' = Tail(queue)
                /\ UNCHANGED <<visited, pc, mysql_return, result>>
           ELSE \E order \in Orderings(_get_outgoing_relationships(cur.current_id, {}, 0)) :
                  LET st == SpProcessRels(st0, cur, order, 1, args)
                  IN  /\ queue' = st.queue
                      /\ visited' = st.visited
                      /\ IF st.found # PyNone
                         THEN /\ mysql_return' = st.found
                              /\ result' = [kind |-> "dict"] @@
                                           _convert_mysql_path_to_dict(st.found)
                              /\ pc' = "done"
                         ELSE UNCHANGED <<pc, mysql_return, result>>
    /\ UNCHANGED <<vendors, edges, coexisted, neo4j_service, endpoint, op, args, paths,
                   visited_paths, cursor, native_paths, invoked>>

\* line 227
ShortestPathExhausted ==
    /\ pc = "mysql"
    /\ op = "find_shortest_path"
    /\ args.source # args.target
    /\ queue = <<>>
    /\ mysql_return' = PyNone
    /\ result' = PyNone
    /\ pc' = "done"
    /\ UNCHANGED <<vendors, edges, coexisted, neo4j_service, endpoint, op, args, queue, paths,
                   visited_paths, visited, cursor, native_paths, invoked>>

\* statistics that insert the vendor when it is missing (get-or-create)
MysqlStatsCreatingVendor ==
    /\ pc = "mysql"
    /\ op = "get_vendor_stats"
    /\ vendors' = vendors \cup {args.source}
    /\ mysql_return' = get_vendor_network_stats(args.source)
    /\ result' = [kind |-> "stats", backend |-> "mysql", stats |-> mysql_return']
    /\ pc' = "done"
    /\ UNCHANGED <<edges, coexisted, neo4j_service, endpoint, op, args, queue, paths,
                   visited_paths, visited, cursor, native_paths, invoked>>

\* HybridGraphService.get_vendor_stats lines 164-166
MysqlStats ==
    /\ pc = "mysql"
    /\ op = "get_vendor_stats"
    /\ mysql_return' = get_vendor_network_stats(args.source)
    /\ result' = [kind |-> "stats", backend |-> "mysql", stats |-> mysql_return']
    /\ pc' = "done"
    /\ UNCHANGED <<vendors, edges, coexisted, neo4j_service, endpoint, op, args, queue, paths,
                   visited_paths, visited, cursor, native_paths, invoked>>

\* the caller takes the result; the locals of the call are gone
Return ==
    /\ pc = "done"
    /\ pc' = "idle"
    /\ op' = "none"
    /\ args' = NoArgs
    /\ neo4j_service' = FALSE
    /\ queue' = <<>>
    /\ paths' = <<>>
    /\ visited_paths' = {}
    /\ visited' = {}
    /\ cursor' = {}
    /\ native_paths' = <<>>
    /\ invoked' = <<>>
    /\ mysql_return' = Pending
    /\ result' = Pending
    /\ UNCHANGED <<vendors, edges, coexisted, endpoint>>

MysqlNext ==
    \/ FindPathsNoSource
    \/ FindPathsExpand
    \/ FindPathsReturn
    \/ ShortestPathSameVendor
    \/ ShortestPathExpand
    \/ ShortestPathExhausted
    \/ MysqlStats
    \/ Return

\* the application as main.py starts it: init_neo4j is never called, so
\* is_neo4j_available() is false and every call is served by MySQL
Next ==
    \/ \E rel_input \in RelInputs : create_relationship(rel_input)
    \/ \E o \in Operations : \E a \in ArgsOf(o) : Call(o, a, FALSE)
    \/ MysqlNext

Spec == Init /\ [][Next]_vars

\* after init_neo4j (sync_to_neo4j.py): the driver may be connected
HybridNext ==
    \/ \E rel_input \in RelInputs : create_relationship(rel_input)
    \/ \E o \in Operations : \E a \in HybridArgsOf(o) : \E available \in BOOLEAN :
          Call(o, a, available)
    \/ NativeFindPathsRun
    \/ NativeFetch
    \/ NativeFindPathsReturn
    \/ NativeShortestPath
    \/ NativeStats
    \/ NativeRaise
    \/ MysqlNext

SpecHybrid == Init /\ [][HybridNext]_vars

(***************************************************************************)
(* Properties of VendorGraphService.find_paths                             *)
(***************************************************************************)
\* the list returned by VendorGraphService.find_paths, once it has returned
Returned == IF mysql_return.kind = "list" THEN mysql_return.paths ELSE <<>>

FindPathsReturned == pc = "done" /\ op = "find_paths" /\ mysql_return.kind = "list"

IsSimple(ids) == \A j, k \in 1..Len(ids) : j # k => ids[j] # ids[k]

\* C1: every path emitted or returned by find_paths contains no vendor id
\* more than once and does not contain the source vendor id among its nodes,
\* whatever cycles, self-loops or edges back to the source the graph has.
C1_PathsAreSimple ==
    op = "find_paths" =>
        \A p \in Range(paths) \cup Range(Returned) :
            /\ IsSimple(NodeIds(p.path))
            /\ args.source \notin Range(NodeIds(p.path))

\* a returned path whose last vendor has an edge, passing the filters, back
\* to the source or to a vendor of the path, with room left in the window
C1_Witness ==
    /\ FindPathsReturned
    /\ \E p \in Range(Returned) : \E e \in edges :
        /\ e.source_vendor_id = p.target_vendor_id
        /\ e.target_vendor_id \in {args.source} \cup Range(NodeIds(p.path))
        /\ e.strength >= args.min_strength
        /\ args.relationship_types = {}
        /\ p.path_length < args.max_depth

\* C2: every returned path has min_depth <= path_length <= max_depth.
C2_LengthInWindow ==
    op = "find_paths" =>
        \A p \in Range(paths) \cup Range(Returned) :
            args.min_depth <= p.path_length /\ p.path_length <= args.max_depth

\* paths are returned although shorter paths, below the window, exist
C2_Witness ==
    /\ FindPathsReturned
    /\ args.min_depth >= 2
    /\ Returned # <<>>

\* C3: total_strength is the product of the strengths of the edges listed in
\* relationships, and risk_score is 1 - total_strength.
C3_StrengthIsProduct ==
    op = "find_paths" =>
        \A p \in Range(paths) \cup Range(Returned) :
            /\ p.total_strength = Product(p.relationships)
            /\ p.risk_score = Pow10(Len(p.relationships)) - p.total_strength

C3_Witness ==
    /\ FindPathsReturned
    /\ \E p \in Range(Returned) :
        /\ Len(p.relationships) >= 2
        /\ p.relationships[1].strength # p.relationships[2].strength

\* C4: find_paths never returns more than limit paths.
C4_AtMostLimit ==
    FindPathsReturned => Len(Returned) <= args.limit

\* the last expansion emitted past the limit and the result was cut
C4_Witness ==
    /\ FindPathsReturned
    /\ Len(paths) > args.limit
    /\ Len(Returned) = args.limit

\* C5: the returned list is ordered by path_length ascending and, among
\* paths of equal path_length, by total_strength descending.
C5_ReturnedIsSorted ==
    FindPathsReturned =>
        \A i, j \in 1..Len(Returned) :
            i < j =>
                /\ Returned[i].path_length <= Returned[j].path_length
                /\ (Returned[i].path_length = Returned[j].path_length =>
                        Returned[i].total_strength >= Returned[j].total_strength)

C5_Witness ==
    /\ FindPathsReturned
    /\ \E i, j \in 1..Len(Returned) :
        /\ Returned[i].path_length = Returned[j].path_length
        /\ Returned[i].total_strength > Returned[j].total_strength
    /\ \E i, j \in 1..Len(Returned) :
        Returned[i].path_length < Returned[j].path_length

(***************************************************************************)
(* Properties of VendorGraphService.find_shortest_path                     *)
(***************************************************************************)
Successors(S) ==
    { e.target_vendor_id : e \in { r \in edges : r.source_vendor_id \in S } }

\* the vendors at the end of a directed walk of exactly k edges from source
RECURSIVE ReachableIn(_, _)
ReachableIn(source, k) ==
    IF k = 0 THEN {source} ELSE Successors(ReachableIn(source, k - 1))

\* the hop counts at which target is reached from another vendor; the least
\* of them is the length of a shortest directed path
HopCounts(source, target) ==
    { k \in 1..Cardinality(VendorIds) : target \in ReachableIn(source, k) }

\* a directed path visits no vendor twice: there is none from a vendor to
\* itself
PathWithin(source, target, max_depth) ==
    /\ source # target
    /\ \E k \in HopCounts(source, target) : k <= max_depth

ShortestPathReturned == pc = "done" /\ op = "find_shortest_path"

\* C6: a path returned by find_shortest_path leads from source to target
\* over edges of the graph, has path_length <= max_depth, and no directed
\* path from source to target has fewer hops.
C6_ShortestPathIsShortest ==
    (ShortestPathReturned /\ mysql_return.kind = "path") =>
        LET p == mysql_return
            rels == p.relationships
        IN  /\ Len(rels) = p.path_length
            /\ Len(p.path) = p.path_length
            /\ p.path_length >= 1
            /\ rels[1].source_vendor_id = args.source
            /\ rels[Len(rels)].target_vendor_id = args.target
            /\ \A i \in 1..Len(rels) :
                /\ rels[i] \in edges
                /\ rels[i].target_vendor_id = p.path[i].vendor_id
                /\ i < Len(rels) =>
                     rels[i + 1].source_vendor_id = rels[i].target_vendor_id
            /\ p.path_length <= args.max_depth
            /\ p.path_length \in HopCounts(args.source, args.target)
            /\ \A k \in HopCounts(args.source, args.target) : p.path_length <= k

\* a path is returned while a longer route to the target exists as well
C6_Witness ==
    /\ ShortestPathReturned
    /\ mysql_return.kind = "path"
    /\ \E k \in HopCounts(args.source, args.target) :
          k > mysql_return.path_length /\ k <= args.max_depth

\* C7: find_shortest_path returns None exactly when no directed path of at
\* most max_depth hops leads from source to target; for source = target it
\* returns None.
C7_NoneIffNoPath ==
    ShortestPathReturned =>
        /\ (mysql_return = PyNone) <=>
              ~PathWithin(args.source, args.target, args.max_depth)
        /\ args.source = args.target => mysql_return = PyNone

\* None although the target is reachable: only beyond max_depth
C7_Witness ==
    /\ ShortestPathReturned
    /\ mysql_return = PyNone
    /\ args.source # args.target
    /\ HopCounts(args.source, args.target) # {}

(***************************************************************************)
(* Properties of HybridGraphService                                        *)
(***************************************************************************)
\* C8: within one call the native backend, when available, is invoked first
\* and once; the MySQL backend is invoked at most once, and only when the
\* native backend is unavailable or its invocation raised; a native call
\* that returned (an empty list or None included) is followed by no fallback,
\* and the native backend is not invoked again after it raised.
C8_SingleShotFallback ==
    pc # "idle" =>
        /\ IF neo4j_service
           THEN invoked \in { <<"neo4j">>, <<"neo4j", "neo4j raised", "mysql">> }
           ELSE invoked = <<"mysql">>
        /\ pc \in {"neo4j", "neo4j_rows"} => invoked = <<"neo4j">>
        /\ pc = "mysql" => invoked[Len(invoked)] = "mysql"
        /\ (pc = "done" /\ mysql_return = Pending) => invoked = <<"neo4j">>
        /\ (pc = "done" /\ mysql_return # Pending) => invoked[Len(invoked)] = "mysql"

\* a call served by MySQL after the native backend raised
C8_Witness ==
    /\ pc = "done"
    /\ invoked = <<"neo4j", "neo4j raised", "mysql">>
    /\ mysql_return # Pending

\* C9: a find_paths response holds the paths of exactly one backend, named by
\* its "backend" field; rows fetched from the native backend before it
\* raised are not part of the fallback response.
C9_OneBackendPerResponse ==
    (pc = "done" /\ op = "find_paths") =>
        /\ result.backend \in {"neo4j", "mysql"}
        /\ result.backend = "neo4j" =>
              /\ invoked = <<"neo4j">>
              /\ mysql_return = Pending
              /\ result.paths = native_paths
              /\ \A row \in Range(result.paths) : row \in MatchPaths(args)
        /\ result.backend = "mysql" =>
              /\ invoked[Len(invoked)] = "mysql"
              /\ mysql_return.kind = "list"
              /\ Len(result.paths) = Len(mysql_return.paths)
              /\ \A i \in 1..Len(result.paths) :
                    result.paths[i] = _convert_mysql_path_to_dict(mysql_return.paths[i])
              /\ \A row \in Range(result.paths) :
                    row \notin Range(native_paths) /\ row \notin MatchPaths(args)

\* a fallback response with paths, after the native call had fetched rows
C9_Witness ==
    /\ pc = "done"
    /\ op = "find_paths"
    /\ result.backend = "mysql"
    /\ native_paths # <<>>
    /\ result.paths # <<>>

(***************************************************************************)
(* Equivalence of the two backends                                         *)
(***************************************************************************)
Tuples(rows) ==
    { <<r.target_vendor_id, r.path_length, r.total_strength>> : r \in rows }

\* C10: on the same graph and arguments, when neither backend reaches limit,
\* the rows of the native find_paths query and the list returned by the
\* relational find_paths have the same set of (target_vendor_id,
\* path_length, total_strength) tuples.
C10_BackendsAgree ==
    (/\ pc = "done"
     /\ op = "find_paths"
     /\ mysql_return.kind = "list"
     /\ ~QueryIsMalformed(args)
     /\ Len(mysql_return.paths) < args.limit
     /\ Cardinality(MatchPaths(args)) < args.limit)
    => Tuples(Range(mysql_return.paths)) = Tuples(MatchPaths(args))

(***************************************************************************)
(* Completeness of find_paths                                              *)
(***************************************************************************)
\* the vendor sequences of the graph, without the program's search: the
\* sequences <<source, v1, ..., vn>> of distinct existing vendors joined by
\* n relationships that pass the filters of the call
RECURSIVE SimpleSequences(_, _)
SimpleSequences(a, n) ==
    IF n = 0 THEN { <<a.source>> }
    ELSE UNION { { Append(s, r.target_vendor_id) :
                     r \in { e \in edges :
                              /\ e.source_vendor_id = s[Len(s)]
                              /\ e.target_vendor_id \in vendors \ Range(s)
                              /\ e.strength >= a.min_strength
                              /\ (a.relationship_types # {} =>
                                     e.relationship_type \in a.relationship_types) } } :
                 s \in SimpleSequences(a, n - 1) }

InWindowSequences(a) ==
    UNION { SimpleSequences(a, n) : n \in a.min_depth..a.max_depth }

SequenceOf(p) == <<p.source_vendor_id>> \o NodeIds(p.path)

\* C11: when the number of simple vendor sequences of the window, over the
\* relationships passing the filters, is below limit, find_paths returns
\* exactly one path for each of them and nothing else.
C11_CompleteWhenLimitNotBinding ==
    (FindPathsReturned /\ Cardinality(InWindowSequences(args)) < args.limit)
    => /\ { SequenceOf(p) : p \in Range(Returned) } = InWindowSequences(args)
       /\ Len(Returned) = Cardinality(InWindowSequences(args))

(***************************************************************************)
(* The limit of find_paths stops the search, not only the output           *)
(***************************************************************************)
BatchSize == 6

Batches == { rels \in SUBSET RelInputs : Cardinality(rels) = BatchSize }

\* app/api/vendors.py batch_create_relationships: every vendor named by the
\* batch must exist, then all rows are added in one commit
batch_create_relationships(rels) ==
    /\ pc = "idle"
    /\ rels # {}
    /\ Cardinality(edges \cup rels) <= BatchSize
    /\ \A rel_input \in rels :
        /\ rel_input.source_vendor_id \in vendors
        /\ rel_input.target_vendor_id \in vendors
    /\ edges' = edges \cup rels
    /\ coexisted' = coexisted \cup SUBSET edges'
    /\ UNCHANGED <<vendors, neo4j_service, endpoint, pc, op, args, queue, paths,
                   visited_paths, visited, cursor, native_paths, invoked,
                   mysql_return, result>>

\* searches from A without filters, with a limit that can bind
LimitFindPathsArgs ==
    { a \in FindPathsArgs :
        /\ a.source = "A"
        /\ a.min_depth <= a.max_depth
        /\ ~a.types_given
        /\ a.min_strength = 0
        /\ a.limit \in {1, MaxLimit} }

LimitNext ==
    \/ \E rels \in Batches : batch_create_relationships(rels)
    \/ \E a \in LimitFindPathsArgs : Call("find_paths", a, FALSE)
    \/ FindPathsExpand
    \/ FindPathsReturn
    \/ Return

SpecLimit == Init /\ [][LimitNext]_vars

\* the relationship sequences of the simple in-window paths from the source
SimplePaths(a) ==
    { t \in UNION { Trails(a.source, n) : n \in a.min_depth..a.max_depth } :
        /\ IsSimple(<<a.source>> \o [i \in 1..Len(t) |-> t[i].target_vendor_id])
        /\ \A i \in 1..Len(t) :
            /\ t[i].target_vendor_id \in vendors
            /\ t[i].strength >= a.min_strength
            /\ (a.relationship_types # {} =>
                   t[i].relationship_type \in a.relationship_types) }

\* (path_length, -total_strength) of the first is strictly smaller
RanksBefore(len1, strength1, len2, strength2) ==
    len1 < len2 \/ (len1 = len2 /\ strength1 > strength2)

\* a simple in-window path whose vendor sequence is not in the result and
\* which ranks strictly before a returned path
OmittedPathRanksBeforeReturned ==
    \E t \in SimplePaths(args) : \E q \in Range(Returned) :
        /\ \A p \in Range(Returned) :
              SequenceOf(p) # <<args.source>> \o
                              [i \in 1..Len(t) |-> t[i].target_vendor_id]
        /\ RanksBefore(Len(t), Product(t), q.path_length, q.total_strength)

\* no two vendor sequences of the window are joined to the same signature
SignaturesDistinct(a) ==
    \A s, t \in InWindowSequences(a) : s # t => JoinIds(s) # JoinIds(t)

\* C12: find_paths can omit a simple in-window path that ranks strictly
\* before a path it returns, and, signatures being distinct, does so only
\* when the emitted paths reached limit while the queue still held
\* unexpanded entries.
C12_OmissionOnlyWhenLimitStopsSearch ==
    (FindPathsReturned /\ OmittedPathRanksBeforeReturned /\
     SignaturesDistinct(args))
    => (Len(paths) >= args.limit /\ queue # <<>>)

\* the result omits a path ranking before one it returns
C12_Witness == FindPathsReturned /\ OmittedPathRanksBeforeReturned

(***************************************************************************)
(* Filters of find_paths                                                   *)
(***************************************************************************)
\* the relationships find_paths has traversed: those of the emitted and
\* returned paths and of the queued partial paths
TraversedRelationships ==
    UNION { Range(p.relationships) : p \in Range(paths) \cup Range(Returned) }
    \cup UNION { Range(q.path_relationships) : q \in Range(queue) }

\* C13, as claimed: every traversed relationship has strength >=
\* min_strength and, for every supplied relationship_types list, a type that
\* is a member of the list.
C13_EdgesPassSuppliedFilters ==
    op = "find_paths" =>
        \A r \in TraversedRelationships :
            /\ r.strength >= args.min_strength
            /\ (args.types_given => r.relationship_type \in args.relationship_types)

\* C13, amended: every traversed relationship has strength >= min_strength
\* and, for every supplied non-empty relationship_types list, a type that is
\* a member of the list; an empty list filters nothing.
C13_EdgesPassFilters ==
    op = "find_paths" =>
        \A r \in TraversedRelationships :
            /\ r.strength >= args.min_strength
            /\ (args.relationship_types # {} =>
                   r.relationship_type \in args.relationship_types)

\* a returned path of two hops or more, where a vendor of the path has an
\* outgoing relationship that fails the filter of the call
C13_Witness ==
    /\ FindPathsReturned
    /\ args.relationship_types # {} \/ args.min_strength > 0
    /\ \E p \in Range(Returned) :
        /\ p.path_length >= 2
        /\ \E e \in edges :
            /\ e.source_vendor_id \in Range(SequenceOf(p))
            /\ \/ e.strength < args.min_strength
               \/ (args.relationship_types # {} /\
                   e.relationship_type \notin args.relationship_types)

(***************************************************************************)
(* Error handling of find_paths                                            *)
(***************************************************************************)
FindPathsDone == pc = "done" /\ op = "find_paths" /\ invoked = <<"mysql">>

\* C14, as claimed: find_paths with a source vendor id that does not exist
\* fails with a NotFound error and does not return an empty path list.
C14_UnknownSourceIsNotFound ==
    (FindPathsDone /\ ~_get_vendor(args.source))
    => (mysql_return.kind = "NotFound" /\ mysql_return.kind # "list")

\* C14, amended: find_paths with a source vendor id that does not exist
\* returns an empty path list and raises no error.
C14_UnknownSourceReturnsEmptyList ==
    (FindPathsDone /\ ~_get_vendor(args.source))
    => mysql_return = [kind |-> "list", paths |-> <<>>]

\* the call has returned for an unknown source while the graph has
\* relationships
C14_Witness ==
    /\ FindPathsDone
    /\ ~_get_vendor(args.source)
    /\ mysql_return.kind = "list"
    /\ edges # {}

\* the parameter constraints of the specification (min_strength in tenths)
InvalidParameters(a) ==
    \/ a.min_depth > a.max_depth
    \/ a.min_depth \notin 1..15
    \/ a.max_depth \notin 1..15
    \/ a.limit \notin 1..1000
    \/ a.min_strength \notin 0..10

\* C15: find_paths with invalid parameters fails with a ValidationError
\* before any relationship or vendor is read; it never returns a path list.
C15_InvalidParametersRejected ==
    (op = "find_paths" /\ InvalidParameters(args))
    => /\ mysql_return.kind # "list"
       /\ pc = "mysql" => queue = InitialQueue(args.source)

(***************************************************************************)
(* Failure of both backends                                                *)
(***************************************************************************)
\* the exception of a failed session.exec, as the caller receives it
DatabaseError == [kind |-> "exception", error |-> "sqlalchemy.exc.DBAPIError"]

ServiceUnavailable == [kind |-> "exception", error |-> "ServiceUnavailable"]

\* any query of the VendorGraphService method raises (MySQL unreachable);
\* hybrid_graph_service.py lines 96-108, 138-143, 165-166 call the method
\* outside any try block, so the exception leaves the hybrid method as it is
MysqlRaise ==
    /\ pc = "mysql"
    /\ mysql_return' = DatabaseError
    /\ result' = DatabaseError
    /\ pc' = "done"
    /\ UNCHANGED <<vendors, edges, coexisted, neo4j_service, endpoint, op, args, queue, paths,
                   visited_paths, visited, cursor, native_paths, invoked>>

FailoverNext ==
    \/ HybridNext
    \/ MysqlRaise

SpecFailover == Init /\ [][FailoverNext]_vars

BothBackendsFailed ==
    /\ pc = "done"
    /\ invoked = <<"neo4j", "neo4j raised", "mysql">>
    /\ mysql_return.kind = "exception"

\* C16: when the native call fails and the relational fallback of the same
\* call fails too, the caller receives a ServiceUnavailable error.
C16_ServiceUnavailableSurfaced ==
    BothBackendsFailed => result = ServiceUnavailable

(***************************************************************************)
(* The graph engine is read-only                                           *)
(***************************************************************************)
\* C17: every step of a find_paths, find_shortest_path or get_vendor_stats
\* call, on either backend, leaves the vendor set and the relationship set
\* unchanged.
C17_CallsLeaveGraphUnchanged ==
    [][(pc # "idle" \/ pc' # "idle") => (vendors' = vendors /\ edges' = edges)]_vars

\* a call has returned a result computed from a graph with relationships
C17_Witness ==
    /\ pc = "done"
    /\ op \in Operations
    /\ edges # {}
    /\ result.kind \in {"paths", "dict", "stats"}

(***************************************************************************)
(* find_paths while the relationship table changes                         *)
(*                                                                         *)
(* Each expansion of find_paths is one SELECT (vendor_graph.py lines       *)
(* 77-81); the service takes no lock and sets no isolation level, so under *)
(* a read-committed session each SELECT sees the table as it is at that    *)
(* moment.  Other requests write between two expansions.                   *)
(***************************************************************************)
ConcurrentRelInputs ==
    { Rel("A", "B", "supplier", 9), Rel("B", "C", "supplier", 5),
      Rel("A", "C", "partner", 9), Rel("C", "D", "supplier", 9) }

ConcurrentFindPathsArgs ==
    { a \in FindPathsArgs :
        /\ a.source = "A"
        /\ a.min_depth = 1
        /\ a.max_depth >= 2
        /\ ~a.types_given
        /\ a.min_strength = 0
        /\ a.limit = DefaultLimit }

\* app/api/vendors.py create_relationship, served for another client between
\* two queries of the find_paths call in flight
concurrent_create_relationship(rel_input) ==
    /\ pc = "mysql"
    /\ op = "find_paths"
    /\ Cardinality(edges) < MaxEdges
    /\ rel_input \notin edges
    /\ rel_input.source_vendor_id \in vendors
    /\ rel_input.target_vendor_id \in vendors
    /\ edges' = edges \cup {rel_input}
    /\ coexisted' = coexisted \cup SUBSET edges'
    /\ UNCHANGED <<vendors, neo4j_service, endpoint, pc, op, args, queue, paths,
                   visited_paths, visited, cursor, native_paths, invoked,
                   mysql_return, result>>

\* the CRUD collaborator deletes a relationship row between two queries of
\* the find_paths call in flight
concurrent_delete_relationship(rel) ==
    /\ pc = "mysql"
    /\ op = "find_paths"
    /\ rel \in edges
    /\ edges' = edges \ {rel}
    /\ UNCHANGED <<vendors, coexisted, neo4j_service, endpoint, pc, op, args, queue,
                   paths, visited_paths, visited, cursor, native_paths,
                   invoked, mysql_return, result>>

ConcurrentNext ==
    \/ \E rel_input \in ConcurrentRelInputs : create_relationship(rel_input)
    \/ \E a \in ConcurrentFindPathsArgs : Call("find_paths", a, FALSE)
    \/ \E rel_input \in ConcurrentRelInputs :
          concurrent_create_relationship(rel_input)
    \/ \E rel \in ConcurrentRelInputs : concurrent_delete_relationship(rel)
    \/ FindPathsExpand
    \/ FindPathsReturn
    \/ Return

SpecConcurrent == Init /\ [][ConcurrentNext]_vars

\* the step pops the head of the queue and queries its relationships
ExpandsHead ==
    /\ pc = "mysql"
    /\ op = "find_paths"
    /\ queue # <<>>
    /\ queue' # queue
    /\ Len(Head(queue).path_nodes) < args.max_depth

StatsReturned ==
    pc = "done" /\ op = "get_vendor_stats" /\ mysql_return.kind = "stats"

OutgoingOf(v) == { r \in edges : r.source_vendor_id = v }

IncomingOf(v) == { r \in edges : r.target_vendor_id = v }

\* the sum of the strengths of S, counted strength by strength
RECURSIVE StrengthTotal(_, _)
StrengthTotal(S, s) ==
    IF s = 0 THEN 0
    ELSE s * Cardinality({ r \in S : r.strength = s }) + StrengthTotal(S, s - 1)

RECURSIVE SumOfValues(_, _)
SumOfValues(f, keys) ==
    IF keys = {} THEN 0
    ELSE LET k == CHOOSE x \in keys : TRUE
         IN  f[k] + SumOfValues(f, keys \ {k})

CountsByType(f, S) ==
    /\ DOMAIN f = { r.relationship_type : r \in S }
    /\ \A t \in DOMAIN f : f[t] = Cardinality({ r \in S : r.relationship_type = t })
    /\ SumOfValues(f, DOMAIN f) = Cardinality(S)

\* the fraction is the mean of the strengths of S, or 0.0 when S is empty
IsMeanOf(fraction, S) ==
    IF S = {} THEN fraction = <<0, 1>>
    ELSE /\ fraction[2] = Cardinality(S)
         /\ fraction[1] = StrengthTotal(S, 10)

\* C19: get_vendor_network_stats(v) counts the relationships with source v
\* and with target v, adds the two counts, counts each by type, and averages
\* their strengths, with 0.0 for an empty set.
C19_StatsAggregateDirectEdges ==
    StatsReturned =>
        LET stats == mysql_return
            v == args.source
        IN  /\ stats.vendor_id = v
            /\ stats.total_outgoing = Cardinality(OutgoingOf(v))
            /\ stats.total_incoming = Cardinality(IncomingOf(v))
            /\ stats.total_connections =
                  Cardinality(OutgoingOf(v)) + Cardinality(IncomingOf(v))
            /\ CountsByType(stats.outgoing_by_type, OutgoingOf(v))
            /\ CountsByType(stats.incoming_by_type, IncomingOf(v))
            /\ IsMeanOf(stats.average_outgoing_strength, OutgoingOf(v))
            /\ IsMeanOf(stats.average_incoming_strength, IncomingOf(v))

\* statistics of a vendor with outgoing relationships of two types and
\* strengths, no incoming relationship, in a graph with a relationship that
\* does not touch the vendor
C19_Witness ==
    /\ StatsReturned
    /\ \E e, f \in OutgoingOf(args.source) :
          e.relationship_type # f.relationship_type /\ e.strength # f.strength
    /\ IncomingOf(args.source) = {}
    /\ edges \ (OutgoingOf(args.source) \cup IncomingOf(args.source)) # {}

(***************************************************************************)
(* Risk hotspots                                                           *)
(***************************************************************************)
MinConnections == {0, 1, 2, 5}

KeyError == [kind |-> "exception", error |-> "KeyError"]

\* app/api/risk_management.py lines 236-240
RiskClassification(total_connections) ==
    IF total_connections >= 10 THEN "CRITICAL"
    ELSE IF total_connections >= 7 THEN "HIGH"
    ELSE "MEDIUM"

\* lines 229-241: the dictionary appended for a vendor; stats["outgoing_count"]
\* and stats["incoming_count"] raise KeyError when the key is missing
HotspotEntry(vendor_id, stats) ==
    IF {"outgoing_count", "incoming_count"} \subseteq DOMAIN stats
    THEN [vendor_id |-> vendor_id,
          total_connections |-> stats.total_connections,
          outgoing_connections |-> stats.outgoing_count,
          incoming_connections |-> stats.incoming_count,
          risk_classification |-> RiskClassification(stats.total_connections)]
    ELSE KeyError

\* line 244: sorted(..., key=total_connections, reverse=True)
SortedHotspots(hs) ==
    \A i, j \in 1..Len(hs) :
        i < j => hs[i].total_connections >= hs[j].total_connections

\* GET /risk-hotspots, lines 197-255
identify_risk_hotspots(min_connections) ==
    /\ pc = "idle"
    /\ op' = "identify_risk_hotspots"
    /\ args' = [min_connections |-> min_connections]
    /\ LET entries ==
             { HotspotEntry(v, get_vendor_network_stats(v)) :
                 v \in { w \in vendors :
                           get_vendor_network_stats(w).total_connections
                              >= min_connections } }
       IN  IF KeyError \in entries
           THEN result' = KeyError
           ELSE \E hs \in Orderings(entries) :
                  /\ SortedHotspots(hs)
                  /\ result' = [kind |-> "hotspots",
                                hotspots_found |-> Len(hs),
                                hotspots |-> hs]
    /\ pc' = "done"
    /\ UNCHANGED <<vendors, edges, coexisted, neo4j_service, endpoint, queue, paths,
                   visited_paths, visited, cursor, native_paths, invoked,
                   mysql_return>>

HotspotsNext ==
    \/ \E rel_input \in RelInputs : create_relationship(rel_input)
    \/ \E min_connections \in MinConnections :
          identify_risk_hotspots(min_connections)
    \/ Return

SpecHotspots == Init /\ [][HotspotsNext]_vars

HotspotsDone == pc = "done" /\ op = "identify_risk_hotspots"

TotalConnections(v) ==
    Cardinality({ r \in edges : r.source_vendor_id = v }) +
    Cardinality({ r \in edges : r.target_vendor_id = v })

\* C20: hotspots(min_connections) returns a list of exactly the vendors with
\* total_connections >= min_connections, each with its connection counts,
\* classified CRITICAL from 10 connections, HIGH from 7 to 9 and MEDIUM
\* otherwise.
C20_HotspotsListed ==
    HotspotsDone =>
        /\ result.kind = "hotspots"
        /\ { h.vendor_id : h \in Range(result.hotspots) } =
              { v \in vendors : TotalConnections(v) >= args.min_connections }
        /\ \A h \in Range(result.hotspots) :
              /\ h.total_connections = TotalConnections(h.vendor_id)
              /\ h.risk_classification =
                    (IF h.total_connections >= 10 THEN "CRITICAL"
                     ELSE IF h.total_connections >= 7 THEN "HIGH"
                     ELSE "MEDIUM")

(***************************************************************************)
(* Vendor ids that contain the separator of the path signature             *)
(***************************************************************************)
\* VendorInput.vendor_id is any string
ArrowVendor == "B->C"

\* app/api/vendors.py create_vendor: the id must be new
create_vendor(vendor_id) ==
    /\ pc = "idle"
    /\ vendor_id \notin vendors
    /\ vendors' = vendors \cup {vendor_id}
    /\ UNCHANGED <<edges, coexisted, neo4j_service, endpoint, pc, op, args, queue,
                   paths, visited_paths, visited, cursor, native_paths,
                   invoked, mysql_return, result>>

SignatureRelInputs ==
    { Rel("A", "B", "supplier", 9), Rel("B", "C", "supplier", 5),
      Rel("C", "D", "supplier", 9), Rel("A", ArrowVendor, "supplier", 9) }

SignatureFindPathsArgs ==
    { a \in FindPathsArgs :
        /\ a.source = "A"
        /\ a.min_depth = 1
        /\ a.max_depth >= 2
        /\ ~a.types_given
        /\ a.min_strength = 0
        /\ a.limit \in {MaxLimit, DefaultLimit} }

SignatureNext ==
    \/ create_vendor(ArrowVendor)
    \/ \E rels \in SUBSET SignatureRelInputs : batch_create_relationships(rels)
    \/ \E a \in SignatureFindPathsArgs : Call("find_paths", a, FALSE)
    \/ FindPathsExpand
    \/ FindPathsReturn
    \/ Return

SpecSignature == Init /\ [][SignatureNext]_vars


(***************************************************************************)
(* Risk-management endpoints (app/api/risk_management.py)                  *)
(***************************************************************************)
ExtraVendor == "E"

\* party_level and max_depth offered to the endpoints; 0 and 16 are rejected
EndpointDepths == (0..MaxDepth) \cup {16}

HTTPException(status_code) ==
    [kind |-> "HTTPException", status_code |-> status_code]

\* the find_paths call of an endpoint: the filters keep their defaults
EndpointArgs(vendor_id, min_depth, max_depth, limit) ==
    [source |-> vendor_id, target |-> NoVendor, min_depth |-> min_depth,
     max_depth |-> max_depth, relationship_types |-> {},
     types_given |-> FALSE, min_strength |-> 0, limit |-> limit]

\* the chain A -> B -> C -> D, and three two-hop routes from A to D
AssessmentRelInputs ==
    { Rel("A", "B", "supplier", 9), Rel("B", "C", "supplier", 8),
      Rel("C", "D", "supplier", 7), Rel("A", "C", "supplier", 9),
      Rel("B", "D", "supplier", 9), Rel("A", "E", "supplier", 5),
      Rel("E", "D", "supplier", 5), Rel("E", "D", "partner", 9) }

\* `path.risk_score if path.risk_score else 0`: None and 0.0 are falsy
RiskOrZero(risk_score) ==
    IF risk_score = None \/ risk_score = 0 THEN 0 ELSE risk_score

\* an update that keeps the first value
RunningAverageKeepsFirst(current_risk, risk_score) == current_risk

\* lines 324-327: (current_risk + risk) / 2, on the fraction num / den
RunningAverage(current_risk, risk_score) ==
    [num |-> current_risk.num + RiskOrZero(risk_score) * current_risk.den,
     den |-> 2 * current_risk.den]

\* position of a vendor in the dictionary vendors_at_level, 0 when absent
IndexOf(entries, vendor_id) ==
    IF \E i \in 1..Len(entries) : entries[i].vendor_id = vendor_id
    THEN CHOOSE i \in 1..Len(entries) : entries[i].vendor_id = vendor_id
    ELSE 0

\* a dictionary that gets a new entry for every path
AssessPathAlwaysNew(entries, path) ==
    Append(entries,
        [vendor_id |-> path.path[Len(path.path)].vendor_id,
         paths_to_vendor |-> 1,
         avg_risk_score |-> [num |-> RiskOrZero(path.risk_score), den |-> 1],
         strongest_path_strength |-> path.total_strength])

\* lines 309-327: the body of the loop over the returned paths
AssessPath(entries, path) ==
    IF path.path = <<>> THEN entries
    ELSE
      LET target_node == path.path[Len(path.path)]
          i == IndexOf(entries, target_node.vendor_id)
      IN  IF i = 0
          THEN Append(entries,
                 [vendor_id |-> target_node.vendor_id,
                  paths_to_vendor |-> 1,
                  avg_risk_score |->
                      [num |-> RiskOrZero(path.risk_score), den |-> 1],
                  strongest_path_strength |-> path.total_strength])
          ELSE [entries EXCEPT
                  ![i].paths_to_vendor = @ + 1,
                  ![i].avg_risk_score = RunningAverage(@, path.risk_score)]

\* lines 308-327: vendors_at_level after the first n paths, in insertion order
RECURSIVE VendorsAtLevel(_, _)
VendorsAtLevel(ps, n) ==
    IF n = 0 THEN <<>> ELSE AssessPath(VendorsAtLevel(ps, n - 1), ps[n])

FractionGE(x, y) == x.num * y.den >= y.num * x.den

\* line 342: sorted(vendors_list, key=avg_risk_score, reverse=True); the sort
\* is stable, so an entry goes after every entry whose key is not smaller
RECURSIVE InsertByRisk(_, _)
InsertByRisk(e, sorted) ==
    IF sorted = <<>> THEN <<e>>
    ELSE IF FractionGE(sorted[1].avg_risk_score, e.avg_risk_score)
         THEN <<sorted[1]>> \o InsertByRisk(e, Tail(sorted))
         ELSE <<e>> \o sorted

RECURSIVE SortByRisk(_)
SortByRisk(entries) ==
    IF entries = <<>> THEN <<>>
    ELSE InsertByRisk(entries[Len(entries)],
                      SortByRisk(SubSeq(entries, 1, Len(entries) - 1)))

\* GET /nth-party/{vendor_id}, lines 284-305: the checks and the call of
\* VendorGraphService.find_paths
nth_party_vendor_assessment(vendor_id, party_level) ==
    /\ pc = "idle"
    /\ endpoint' = "nth_party_vendor_assessment"
    /\ IF party_level < 1 \/ party_level > 15
       THEN /\ result' = HTTPException(400)
            /\ pc' = "responded"
            /\ UNCHANGED <<op, args, queue, paths, visited_paths, visited,
                           invoked>>
       ELSE IF ~_get_vendor(vendor_id)
       THEN /\ result' = HTTPException(404)
            /\ pc' = "responded"
            /\ UNCHANGED <<op, args, queue, paths, visited_paths, visited,
                           invoked>>
       ELSE /\ op' = "find_paths"
            /\ args' = EndpointArgs(vendor_id, party_level, party_level, 500)
            /\ MysqlBegin(op', args', <<"mysql">>)
            /\ UNCHANGED result
    /\ UNCHANGED <<vendors, edges, coexisted, neo4j_service, cursor,
                   native_paths, mysql_return>>

\* lines 308-343: the loop over the returned paths and the response
nth_party_vendor_assessmentReturn ==
    /\ pc = "done"
    /\ endpoint = "nth_party_vendor_assessment"
    /\ LET vendors_list == VendorsAtLevel(Returned, Len(Returned))
       IN  result' = [kind |-> "nth_party",
                      source_vendor_id |-> args.source,
                      party_level |-> args.min_depth,
                      vendors_found |-> Len(vendors_list),
                      vendors |-> SortByRisk(vendors_list)]
    /\ pc' = "responded"
    /\ UNCHANGED <<vendors, edges, coexisted, neo4j_service, endpoint, op,
                   args, queue, paths, visited_paths, visited, cursor,
                   native_paths, invoked, mysql_return>>

\* the client takes the response; the locals of the handler are gone
EndpointReturn ==
    /\ pc = "responded"
    /\ pc' = "idle"
    /\ endpoint' = "none"
    /\ op' = "none"
    /\ args' = NoArgs
    /\ queue' = <<>>
    /\ paths' = <<>>
    /\ visited_paths' = {}
    /\ visited' = {}
    /\ invoked' = <<>>
    /\ mysql_return' = Pending
    /\ result' = Pending
    /\ UNCHANGED <<vendors, edges, coexisted, neo4j_service, cursor,
                   native_paths>>

\* lines 162-168: the dictionary kept for a path
PathDict(p) ==
    [target_vendor_id |-> p.target_vendor_id, path_length |-> p.path_length,
     total_strength |-> p.total_strength, risk_score |-> p.risk_score,
     path |-> NodeIds(p.path)]

RECURSIVE SumRisk(_)
SumRisk(paths_list) ==
    IF paths_list = <<>> THEN 0
    ELSE RiskOrZero(paths_list[1].risk_score) + SumRisk(Tail(paths_list))

\* line 177: max(..., default=0) over the risk scores that are not falsy
MaxRisk(paths_list) ==
    LET risks == { paths_list[i].risk_score : i \in 1..Len(paths_list) }
                     \ {None, 0}
    IN  IF risks = {} THEN 0
        ELSE CHOOSE r \in risks : \A q \in risks : q <= r

\* statistics over all paths, whatever their length
LevelOfAllPaths(all_paths, depth) == all_paths

\* lines 157-168: paths_by_depth[depth], in the order of all_paths
LevelOf(all_paths, depth) ==
    SelectSeq(all_paths, LAMBDA p : p.path_length = depth)

\* lines 171-180: depth_statistics; the key f"level_{depth}" is modelled by
\* depth.  Risk scores of one level share the unit 10^-depth.
DepthStatistics(all_paths) ==
    [depth \in { all_paths[i].path_length : i \in 1..Len(all_paths) } |->
        LET paths_list == LevelOf(all_paths, depth)
        IN  [degree |-> depth,
             vendors_found |-> Len(paths_list),
             avg_risk_score |->
                 [num |-> SumRisk(paths_list), den |-> Len(paths_list)],
             max_risk_score |-> MaxRisk(paths_list),
             paths |-> [i \in 1..Len(paths_list) |-> PathDict(paths_list[i])]]]

\* key of line 189, brought to the unit 10^-n of the longer path
RiskGE(p, q) ==
    RiskOrZero(p.risk_score) * Pow10(q.path_length)
        >= RiskOrZero(q.risk_score) * Pow10(p.path_length)

RECURSIVE InsertByPathRisk(_, _)
InsertByPathRisk(p, sorted) ==
    IF sorted = <<>> THEN <<p>>
    ELSE IF RiskGE(sorted[1], p)
         THEN <<sorted[1]>> \o InsertByPathRisk(p, Tail(sorted))
         ELSE <<p>> \o sorted

\* lines 188-192: sorted(all_paths, key=risk, reverse=True)[:10]
RECURSIVE HighestRiskPaths(_)
HighestRiskPaths(all_paths) ==
    IF all_paths = <<>> THEN <<>>
    ELSE InsertByPathRisk(all_paths[Len(all_paths)],
             HighestRiskPaths(SubSeq(all_paths, 1, Len(all_paths) - 1)))

\* GET /deep-search/{vendor_id}, lines 132-154: the checks and the call of
\* VendorGraphService.find_paths
deep_vendor_search(vendor_id, max_depth) ==
    /\ pc = "idle"
    /\ endpoint' = "deep_vendor_search"
    /\ IF max_depth < 1 \/ max_depth > 15
       THEN /\ result' = HTTPException(400)
            /\ pc' = "responded"
            /\ UNCHANGED <<op, args, queue, paths, visited_paths, visited,
                           invoked>>
       ELSE IF ~_get_vendor(vendor_id)
       THEN /\ result' = HTTPException(404)
            /\ pc' = "responded"
            /\ UNCHANGED <<op, args, queue, paths, visited_paths, visited,
                           invoked>>
       ELSE /\ op' = "find_paths"
            /\ args' = EndpointArgs(vendor_id, 1, max_depth, 1000)
            /\ MysqlBegin(op', args', <<"mysql">>)
            /\ UNCHANGED result
    /\ UNCHANGED <<vendors, edges, coexisted, neo4j_service, cursor,
                   native_paths, mysql_return>>

\* lines 156-194: the grouping, the statistics and the response
deep_vendor_searchReturn ==
    /\ pc = "done"
    /\ endpoint = "deep_vendor_search"
    /\ result' = [kind |-> "deep_search",
                  source_vendor_id |-> args.source,
                  max_depth_searched |-> args.max_depth,
                  total_paths_found |-> Len(Returned),
                  depth_statistics |-> DepthStatistics(Returned),
                  risk_summary |->
                      [highest_risk_paths |->
                          Truncate(HighestRiskPaths(Returned), 10)]]
    /\ pc' = "responded"
    /\ UNCHANGED <<vendors, edges, coexisted, neo4j_service, endpoint, op,
                   args, queue, paths, visited_paths, visited, cursor,
                   native_paths, invoked, mysql_return>>

EndpointsNext ==
    \/ create_vendor(ExtraVendor)
    \/ \E rels \in SUBSET AssessmentRelInputs : batch_create_relationships(rels)
    \/ \E vendor_id \in {"A", MissingVendor} : \E party_level \in EndpointDepths :
          nth_party_vendor_assessment(vendor_id, party_level)
    \/ \E vendor_id \in {"A", MissingVendor} : \E max_depth \in EndpointDepths :
          deep_vendor_search(vendor_id, max_depth)
    \/ FindPathsExpand
    \/ FindPathsReturn
    \/ nth_party_vendor_assessmentReturn
    \/ deep_vendor_searchReturn
    \/ EndpointReturn

SpecEndpoints == Init /\ [][EndpointsNext]_vars

NthPartyResponded ==
    /\ pc = "responded"
    /\ endpoint = "nth_party_vendor_assessment"
    /\ result.kind = "nth_party"

DeepSearchResponded ==
    /\ pc = "responded"
    /\ endpoint = "deep_vendor_search"
    /\ result.kind = "deep_search"

(***************************************************************************)
(* Nth-party assessment                                                    *)
(***************************************************************************)
ChainEdges ==
    { Rel("A", "B", "supplier", 9), Rel("B", "C", "supplier", 8),
      Rel("C", "D", "supplier", 7) }

\* the returned paths that end at a vendor
PathsEndingAt(vendor_id) ==
    { i \in 1..Len(Returned) : Returned[i].target_vendor_id = vendor_id }

\* C21: the nth-party assessment of a vendor at level N runs find_paths with
\* min_depth = max_depth = N and lists exactly one entry per distinct target
\* of the returned paths; the path count of an entry is the number of
\* returned paths that end at its vendor, so every listed vendor is reached
\* from the source by a simple path of exactly N hops.  On the chain
\* A -> B -> C -> D with N = 2 the only vendor listed is C.
C21_OneEntryPerTarget ==
    NthPartyResponded =>
        LET vs == result.vendors
            N == result.party_level
        IN  /\ args.min_depth = N /\ args.max_depth = N
            /\ result.vendors_found = Len(vs)
            /\ \A i, j \in 1..Len(vs) :
                  i # j => vs[i].vendor_id # vs[j].vendor_id
            /\ { vs[i].vendor_id : i \in 1..Len(vs) } =
                  { Returned[i].target_vendor_id : i \in 1..Len(Returned) }
            /\ \A i \in 1..Len(vs) :
                  /\ vs[i].paths_to_vendor =
                        Cardinality(PathsEndingAt(vs[i].vendor_id))
                  /\ \E s \in SimpleSequences(args, N) :
                        /\ s[1] = args.source
                        /\ s[Len(s)] = vs[i].vendor_id
                        /\ Len(s) = N + 1
            /\ (edges = ChainEdges /\ args.source = "A" /\ N = 2) =>
                  (Len(vs) = 1 /\ vs[1].vendor_id = "C")

\* an assessment at level 2 that lists two vendors, one of them reached by
\* two paths
C21_Witness ==
    /\ NthPartyResponded
    /\ result.party_level = 2
    /\ result.vendors_found = 2
    /\ \E i \in 1..Len(result.vendors) : result.vendors[i].paths_to_vendor = 2

RECURSIVE Pow2(_)
Pow2(n) == IF n = 0 THEN 1 ELSE 2 * Pow2(n - 1)

\* the risk scores of the returned paths that end at a vendor, in returned
\* order
RisksEndingAt(vendor_id) ==
    LET ps == SelectSeq(Returned, LAMBDA p : p.target_vendor_id = vendor_id)
    IN  [i \in 1..Len(ps) |-> ps[i].risk_score]

RECURSIVE SumOfSeq(_)
SumOfSeq(s) == IF s = <<>> THEN 0 ELSE s[1] + SumOfSeq(Tail(s))

\* 2^(k-1) times the fold a1 = r1, a_i = (a_(i-1) + r_i) / 2, written out:
\* r1 + r2 + 2 r3 + ... + 2^(k-2) rk
ScaledFold(rs) ==
    rs[1] + SumOfSeq([i \in 1..(Len(rs) - 1) |-> Pow2(i - 1) * rs[i + 1]])

\* C22: the avg_risk_score of an entry of the nth-party assessment, whose
\* returned paths have the risk scores r1..rk in returned order, is the fold
\* a1 = r1, a_i = (a_(i-1) + r_i) / 2; for k >= 3 it differs from the
\* arithmetic mean of r1..rk whenever the risk scores are not all equal.
C22_RunningValueNotMean ==
    NthPartyResponded =>
        \A i \in 1..Len(result.vendors) :
            LET e == result.vendors[i]
                rs == RisksEndingAt(e.vendor_id)
                k == Len(rs)
            IN  /\ k >= 1
                /\ e.avg_risk_score.num * Pow2(k - 1) =
                      e.avg_risk_score.den * ScaledFold(rs)
                /\ (k >= 3 /\ \E m, n \in 1..k : rs[m] # rs[n]) =>
                      e.avg_risk_score.num * k #
                          e.avg_risk_score.den * SumOfSeq(rs)

\* a vendor reached by three returned paths whose risk scores differ
C22_Witness ==
    /\ NthPartyResponded
    /\ \E i \in 1..Len(result.vendors) :
          LET rs == RisksEndingAt(result.vendors[i].vendor_id)
          IN  /\ Len(rs) = 3
              /\ rs[1] # rs[2]
              /\ rs[2] # rs[3]

(***************************************************************************)
(* Deep search                                                             *)
(***************************************************************************)
\* the returned paths of one length
PathsOfLength(depth) ==
    { i \in 1..Len(Returned) : Returned[i].path_length = depth }

ReturnedRisks == [i \in 1..Len(Returned) |-> Returned[i].risk_score]

\* count, average and maximum of a level are those of the returned paths of
\* that length
LevelStatisticsCorrect(stats, depth) ==
    /\ depth \in DOMAIN stats
    /\ stats[depth].degree = depth
    /\ stats[depth].vendors_found = Cardinality(PathsOfLength(depth))
    /\ Len(stats[depth].paths) = Cardinality(PathsOfLength(depth))
    /\ \A j \in 1..Len(stats[depth].paths) :
          stats[depth].paths[j].path_length = depth
    /\ stats[depth].avg_risk_score.num =
          SumOfValues(ReturnedRisks, PathsOfLength(depth))
    /\ stats[depth].avg_risk_score.den = Cardinality(PathsOfLength(depth))
    /\ \A i \in PathsOfLength(depth) :
          ReturnedRisks[i] <= stats[depth].max_risk_score
    /\ \E i \in PathsOfLength(depth) :
          ReturnedRisks[i] = stats[depth].max_risk_score

LevelKeysAndCounts(stats) ==
    /\ DOMAIN stats \subseteq 1..args.max_depth
    /\ DOMAIN stats = { Returned[i].path_length : i \in 1..Len(Returned) }
    /\ SumOfValues([d \in DOMAIN stats |-> stats[d].vendors_found],
                   DOMAIN stats) = result.total_paths_found
    /\ result.total_paths_found = Len(Returned)

\* C23 as stated: the deep search groups the paths returned by
\* find_paths(min_depth = 1, max_depth) by path_length and reports, for every
\* level with at least one path, the count, the average, the minimum and the
\* maximum risk score of the paths of that length; the level keys lie in
\* 1..max_depth and the level counts sum to the number of paths found.
C23_LevelStatisticsWithMinimum ==
    DeepSearchResponded =>
        LET stats == result.depth_statistics
        IN  /\ args.min_depth = 1
            /\ LevelKeysAndCounts(stats)
            /\ \A depth \in 1..args.max_depth :
                  PathsOfLength(depth) # {} =>
                      /\ LevelStatisticsCorrect(stats, depth)
                      /\ "min_risk_score" \in DOMAIN stats[depth]
                      /\ \A i \in PathsOfLength(depth) :
                            stats[depth].min_risk_score <= ReturnedRisks[i]
                      /\ \E i \in PathsOfLength(depth) :
                            stats[depth].min_risk_score = ReturnedRisks[i]

\* C23, amended: as above with the count, the average and the maximum risk
\* score only; a level reports no minimum.
C23_LevelStatistics ==
    DeepSearchResponded =>
        LET stats == result.depth_statistics
        IN  /\ args.min_depth = 1
            /\ LevelKeysAndCounts(stats)
            /\ \A depth \in 1..args.max_depth :
                  PathsOfLength(depth) # {} =>
                      /\ LevelStatisticsCorrect(stats, depth)
                      /\ DOMAIN stats[depth] =
                            {"degree", "vendors_found", "avg_risk_score",
                             "max_risk_score", "paths"}

\* a deep search that finds paths of two lengths, two of them of length 2
\* with different risk scores
C23_Witness ==
    /\ DeepSearchResponded
    /\ Cardinality(DOMAIN result.depth_statistics) >= 2
    /\ \E i, j \in PathsOfLength(2) : ReturnedRisks[i] # ReturnedRisks[j]

(***************************************************************************)
(* The chain A -[0.9]-> B -[0.8]-> C -[0.7]-> D                            *)
(***************************************************************************)
ChainRelInputs ==
    ChainEdges \cup
        { Rel("A", "C", "partner", 5), Rel("D", "A", "supplier", 9) }

ChainFindPathsArgs ==
    { a \in FindPathsArgs :
        /\ a.source = "A"
        /\ a.min_depth = 1
        /\ ~a.types_given
        /\ a.min_strength = 0
        /\ a.limit \in {MaxLimit, DefaultLimit} }

ChainNext ==
    \/ \E rels \in SUBSET ChainRelInputs : batch_create_relationships(rels)
    \/ \E a \in ChainFindPathsArgs : Call("find_paths", a, FALSE)
    \/ \E a \in ShortestPathArgs : Call("find_shortest_path", a, FALSE)
    \/ FindPathsExpand
    \/ FindPathsReturn
    \/ ShortestPathSameVendor
    \/ ShortestPathExpand
    \/ ShortestPathExhausted
    \/ Return

SpecChain == Init /\ [][ChainNext]_vars

\* C24: the path returned by find_shortest_path has total_strength equal to
\* the product of the strengths of its relationships and risk_score equal to
\* 1 - total_strength; on the chain, find_shortest_path(A, D, 3) is the path
\* of length 3 with strength 0.504 and risk 0.496.
C24_ShortestPathStrengthAndRisk ==
    (ShortestPathReturned /\ mysql_return.kind = "path") =>
        LET p == mysql_return
        IN  /\ p.total_strength = Product(p.relationships)
            /\ p.risk_score # None
            /\ p.risk_score = Pow10(p.path_length) - p.total_strength
            /\ (edges = ChainEdges /\ args.source = "A" /\ args.target = "D"
                  /\ args.max_depth = 3) =>
                  /\ NodeIds(p.path) = <<"B", "C", "D">>
                  /\ p.path_length = 3
                  /\ p.total_strength = 504
                  /\ p.risk_score = 496

\* C25: on the graph with exactly the relationships A -[0.9]-> B,
\* B -[0.8]-> C and C -[0.7]-> D, find_paths(A, min_depth = 1, max_depth = 3)
\* returns exactly three paths in this order: A,B (length 1, strength 0.9,
\* risk 0.1), A,B,C (length 2, strength 0.72, risk 0.28) and A,B,C,D
\* (length 3, strength 0.504, risk 0.496).
C25_ChainPaths ==
    (/\ FindPathsReturned
     /\ edges = ChainEdges
     /\ args.source = "A" /\ args.min_depth = 1 /\ args.max_depth = 3
     /\ ~args.types_given /\ args.min_strength = 0
     /\ args.limit >= 3) =>
        /\ Len(Returned) = 3
        /\ SequenceOf(Returned[1]) = <<"A", "B">>
        /\ Returned[1].path_length = 1
        /\ Returned[1].total_strength = 9
        /\ Returned[1].risk_score = 1
        /\ SequenceOf(Returned[2]) = <<"A", "B", "C">>
        /\ Returned[2].path_length = 2
        /\ Returned[2].total_strength = 72
        /\ Returned[2].risk_score = 28
        /\ SequenceOf(Returned[3]) = <<"A", "B", "C", "D">>
        /\ Returned[3].path_length = 3
        /\ Returned[3].total_strength = 504
        /\ Returned[3].risk_score = 496

\* the search of the claim has returned
C25_Witness ==
    /\ FindPathsReturned
    /\ edges = ChainEdges
    /\ args.source = "A" /\ args.min_depth = 1 /\ args.max_depth = 3
    /\ args.limit = DefaultLimit
    /\ Len(Returned) = 3

(***************************************************************************)
(* The limit is tested once per dequeue                                    *)
(***************************************************************************)
FindPathsRunning == pc = "mysql" /\ op = "find_paths"

\* the step is the return of lines 140-143 and nothing else
GoesToSortAndTruncate ==
    /\ queue' = queue
    /\ visited_paths' = visited_paths
    /\ paths' = SortPaths(paths)
    /\ mysql_return' = [kind |-> "list", paths |-> Truncate(paths', args.limit)]
    /\ pc' = "done"

\* processing the rows in this order, the target vendor of some row is read
\* (line 91) when limit paths have been emitted already
ReadsVendorAfterLimit(st0, cur, order, a) ==
    \E i \in 1..Len(order) :
        /\ Len(ProcessRels(st0, cur, SubSeq(order, 1, i - 1), 1, a).paths)
              >= a.limit
        /\ ~RevisitsVendor(order[i].target_vendor_id, cur.path_nodes, a.source)

\* the iteration of the while loop taken by this step meets no such read,
\* whatever row order led to the step's outcome
NoReadAfterLimitInStep ==
    (FindPathsRunning /\ LoopContinues(queue, paths, args.limit)
        /\ Len(Head(queue).path_nodes) < args.max_depth) =>
        LET cur == Head(queue)
            st0 == [queue |-> Tail(queue), paths |-> paths,
                    visited_paths |-> visited_paths]
        IN  \A order \in Orderings(_get_outgoing_relationships(
                    cur.current_id, args.relationship_types, args.min_strength)) :
                LET st == ProcessRels(st0, cur, order, 1, args)
                IN  (queue' = st.queue /\ paths' = st.paths
                        /\ visited_paths' = st.visited_paths) =>
                    ~ReadsVendorAfterLimit(st0, cur, order, args)

\* C26 as stated: once limit paths have been emitted, find_paths dequeues
\* and expands no further frontier state, reads no outgoing relationships and
\* no vendor after that point, and goes directly to sort-and-truncate.
C26_NothingReadAfterLimit ==
    [][ /\ (FindPathsRunning /\ Len(paths) >= args.limit) =>
              GoesToSortAndTruncate
        /\ NoReadAfterLimitInStep ]_vars

\* C26, amended: once limit paths have been emitted, find_paths dequeues no
\* further frontier state and reads no further outgoing relationships: the
\* next step of the call is sort-and-truncate, with the frontier as it was.
\* (The rows of the frontier state being expanded when the limit is reached
\* are still processed to the end.)
C26_NoDequeueAfterLimit ==
    [][ (FindPathsRunning /\ Len(paths) >= args.limit) =>
            GoesToSortAndTruncate ]_vars

\* the call has returned with more than limit paths emitted and the frontier
\* not empty
C26_Witness ==
    /\ FindPathsReturned
    /\ Len(paths) > args.limit
    /\ queue # <<>>

(***************************************************************************)
(* Emitted paths and emitted signatures                                    *)
(***************************************************************************)
FindPathsActive == op = "find_paths" /\ pc \in {"mysql", "done"}

\* C27: no two paths returned by one find_paths call have the same ordered
\* vendor-id sequence, also when several relationships of different types
\* join the same ordered pair of vendors; at every step of the search the
\* set of emitted signatures has the size of the list of emitted paths.
C27_OnePathPerSequence ==
    FindPathsActive =>
        /\ Cardinality(visited_paths) = Len(paths)
        /\ \A i, j \in 1..Len(paths) :
              i # j => SequenceOf(paths[i]) # SequenceOf(paths[j])
        /\ \A i, j \in 1..Len(Returned) :
              i # j => SequenceOf(Returned[i]) # SequenceOf(Returned[j])

\* A and B are joined by two relationships of different types and the
\* returned list holds the sequence A, B (once)
C27_Witness ==
    /\ FindPathsReturned
    /\ \E r, q \in edges :
          /\ r.source_vendor_id = "A" /\ r.target_vendor_id = "B"
          /\ q.source_vendor_id = "A" /\ q.target_vendor_id = "B"
          /\ r.relationship_type # q.relationship_type
    /\ \E i \in 1..Len(Returned) : SequenceOf(Returned[i]) = <<"A", "B">>
    /\ Len(Returned) >= 2

(***************************************************************************)
(* Structure of paths and of queue entries                                 *)
(***************************************************************************)
\* nodes and relationships in step: the i-th relationship ends at the i-th
\* node, which has depth i, and starts where the previous one ended
InStep(source_vendor_id, nodes, rels) ==
    /\ Len(nodes) = Len(rels)
    /\ \A i \in 1..Len(nodes) :
          /\ nodes[i].depth = i
          /\ rels[i].target_vendor_id = nodes[i].vendor_id
          /\ rels[i].source_vendor_id =
                IF i = 1 THEN source_vendor_id ELSE nodes[i - 1].vendor_id

WellFormedPath(p) ==
    /\ p.path_length = Len(p.path)
    /\ p.path_length = Len(p.relationships)
    /\ p.path_length >= 1
    /\ p.source_vendor_id = args.source
    /\ InStep(p.source_vendor_id, p.path, p.relationships)
    /\ p.target_vendor_id = p.path[Len(p.path)].vendor_id

WellFormedQueueEntry(e) ==
    /\ InStep(args.source, e.path_nodes, e.path_relationships)
    /\ e.current_id = IF e.path_nodes = <<>> THEN args.source
                      ELSE e.path_nodes[Len(e.path_nodes)].vendor_id

\* C28: every path returned by find_paths or find_shortest_path is well
\* formed: path_length is the number of nodes and of relationships, the i-th
\* node has depth i, the first relationship starts at the source, each
\* relationship ends at the i-th node where the next one starts, and
\* target_vendor_id is the last node.  The same holds for every entry of
\* the BFS queue.
C28_PathsWellFormed ==
    (op \in {"find_paths", "find_shortest_path"} /\ pc \in {"mysql", "done"}) =>
        /\ \A i \in 1..Len(paths) : WellFormedPath(paths[i])
        /\ \A i \in 1..Len(Returned) : WellFormedPath(Returned[i])
        /\ mysql_return.kind = "path" => WellFormedPath(mysql_return)
        /\ \A i \in 1..Len(queue) : WellFormedQueueEntry(queue[i])

\* find_paths has returned a path of three relationships
C28_Witness ==
    /\ FindPathsReturned
    /\ \E i \in 1..Len(Returned) : Returned[i].path_length = 3

\* find_shortest_path has returned a path of two relationships with an entry
\* still queued
C28_WitnessShortest ==
    /\ ShortestPathReturned
    /\ mysql_return.kind = "path"
    /\ mysql_return.path_length = 2
    /\ queue # <<>>

(***************************************************************************)
(* Termination of the searches                                             *)
(***************************************************************************)
\* relationships with a self-loop and cycles of two and three vendors
CycleRelInputs ==
    { Rel("A", "B", "supplier", 9), Rel("B", "A", "supplier", 9),
      Rel("B", "B", "supplier", 9), Rel("B", "C", "supplier", 5),
      Rel("C", "A", "supplier", 5), Rel("C", "D", "supplier", 9) }

TerminationFindPathsArgs ==
    { a \in FindPathsArgs :
        /\ a.source \in {"A", "B"}
        /\ a.min_depth = 1
        /\ ~a.types_given
        /\ a.min_strength = 0 }

TerminationNext ==
    \/ \E rels \in SUBSET CycleRelInputs : batch_create_relationships(rels)
    \/ \E a \in TerminationFindPathsArgs : Call("find_paths", a, FALSE)
    \/ \E a \in ShortestPathArgs : Call("find_shortest_path", a, FALSE)
    \/ FindPathsExpand
    \/ FindPathsReturn
    \/ ShortestPathSameVendor
    \/ ShortestPathExpand
    \/ ShortestPathExhausted
    \/ Return

\* a call runs in the thread of its request: an iteration of its loop, or
\* its return, is taken whenever it is the next thing to do
SearchFairness ==
    /\ WF_vars(FindPathsExpand)
    /\ WF_vars(FindPathsReturn)
    /\ WF_vars(ShortestPathSameVendor)
    /\ WF_vars(ShortestPathExpand)
    /\ WF_vars(ShortestPathExhausted)

SpecTermination == Init /\ [][TerminationNext]_vars /\ SearchFairness

SearchRunning ==
    pc = "mysql" /\ op \in {"find_paths", "find_shortest_path"}

\* C29: find_paths and find_shortest_path terminate on every finite graph,
\* with cycles and self-loops, for every max_depth and limit: a running
\* search reaches its return, with the queue empty or the limit or the
\* target reached.
C29_SearchTerminates ==
    SearchRunning ~>
        (/\ pc = "done"
         /\ \/ queue = <<>>
            \/ op = "find_paths" /\ Len(paths) >= args.limit
            \/ op = "find_shortest_path" /\ mysql_return.kind = "path")

\* a search to the full depth has returned with an empty queue on a graph
\* that has the self-loop and both cycles
C29_Witness ==
    /\ pc = "done"
    /\ op = "find_paths"
    /\ args.max_depth = MaxDepth
    /\ queue = <<>>
    /\ { Rel("A", "B", "supplier", 9), Rel("B", "A", "supplier", 9),
         Rel("B", "B", "supplier", 9), Rel("B", "C", "supplier", 5),
         Rel("C", "A", "supplier", 5) } \subseteq edges

(***************************************************************************)
(* Shorter paths come first                                                *)
(***************************************************************************)
\* C30: also when limit binds, find_paths never omits a shorter path in
\* favour of a longer one: every simple vendor sequence of the window, over
\* the relationships passing the filters, that is absent from the result is
\* at least as long as every returned path.
C30_NoShorterPathOmitted ==
    FindPathsReturned =>
        \A s \in InWindowSequences(args) \
                    { SequenceOf(Returned[i]) : i \in 1..Len(Returned) } :
            \A i \in 1..Len(Returned) : Len(s) - 1 >= Returned[i].path_length

====
